---- MODULE Spec2Model ----
(***************************************************************************)
(* A model of pint/models/timing_model.py: the Cache decorators            *)
(* (use_cache, cache_result) and the TimingModel evaluation entry points   *)
(* (delay, phase, d_phase_d_param, designmatrix).  Python calls are        *)
(* executed by a small interpreter over a call stack of frames, so that    *)
(* nested calls, the scope a call owns and an exception unwinding the      *)
(* stack are all visible in the state.                                     *)
(***************************************************************************)
EXTENDS Integers, Sequences, FiniteSets, TLC

\* ------------------------------------------------------------------ bounds
MaxToas == 2          \* longest observation table passed to an entry point
MaxParams == 4        \* longest params list (PSR included)
MaxScopes == 2        \* number of Cache objects ever created

\* -------------------------------------------------------------- universes
ParamNames == {"F0", "A", "B"}
AllNames == ParamNames \cup {"PSR"}
F0Values == {2}
\* component functions in the order the components' __init__ register them
L1Order == <<2, 1>>
L2Order == <<4, 3>>
PhaseOrder == <<2, 1>>
CachedFuncs == {"hA", "hB"}
\* the parameters of the model that reads a parfile
ParfileNames == {"PSR", "A", "A2"}
Levels == {"L1", "L2"}

\* observation tables: ordered sequences of observation times (days)
ToaTables == {[i \in 1..n |-> i] : n \in 0..MaxToas}

VARIABLES
    cache,        \* self.cache: None, or the active Cache object
    params,       \* self.params: list of parameter names
    frozen,       \* getattr(self, name).frozen for each attribute set
    F0value,      \* self.F0.value
    attrs,        \* parameter names set as attributes of the model
    delay_funcs,  \* self.delay_funcs: {'L1': [...], 'L2': [...]}
    phase_funcs,  \* self.phase_funcs
    pvalue,       \* getattr(self, name).value, as read from a parfile
    ctype,        \* kind of component: "plain", "shapiro" (has
                  \* PLANET_SHAPIRO) or "binary" (has BinaryModelName)
    threads,      \* threads calling use_cache entry points, and the cache
                  \* attribute of the instance(s) they call them on
    stack,        \* the Python call stack, innermost frame last
    top,          \* the top-level call in progress / last made
    outcome,      \* of the last top-level call on the model as it stands:
                  \* "idle" (none), "running", "returned", "raised"
    result,       \* value returned by the last top-level call
    log,          \* calls made to component functions during the top call
    hist,         \* last call of each cache_result function: scope, value
    nscopes,      \* number of Cache objects created so far
    everRaised    \* some top-level call has failed

vars == <<cache, params, frozen, F0value, attrs, delay_funcs, phase_funcs,
          pvalue, ctype, threads, stack, top,
          outcome, result, log, hist, nscopes, everRaised>>

\* ----------------------------------------------------------------- values
NoVal == 0
RECURSIVE Pow2(_)
Pow2(n) == IF n = 0 THEN 1 ELSE 2 * Pow2(n - 1)

RECURSIVE SumSeq(_)
SumSeq(s) == IF s = <<>> THEN 0 ELSE Head(s) + SumSeq(Tail(s))

Last(s) == s[Len(s)]
Front(s) == SubSeq(s, 1, Len(s) - 1)
Range(f) == {f[x] : x \in DOMAIN f}

\* np.zeros(n)
zeros(n) == [i \in 1..n |-> 0]
\* element-wise a + b (numpy broadcasting of equal-length vectors)
VecAdd(a, b) == [i \in 1..Len(a) |-> a[i] + b[i]]

\* the Cache object: its identity and the attributes set on it
NoneCache == [kind |-> "None", id |-> 0,
              store |-> [f \in CachedFuncs |-> NoVal]]
\* the receiver has no `cache` attribute
AbsentCache == [NoneCache EXCEPT !.kind = "Absent"]
NewCache(n) == [kind |-> "Cache", id |-> n,
                store |-> [f \in CachedFuncs |-> NoVal]]

Val(k, v) == [kind |-> k, v |-> v]
NoResult == Val("none", 0)

\* ------------------------------------------------- component functions
\* (code of the components, outside timing_model.py: what a registered
\*  function returns for one observation, and which helper it consults)
DfVal(id, t) == Pow2(id - 1) * t
HelperOf(id) == IF id \in {1, 3} THEN "hA" ELSE IF id = 2 THEN "hB" ELSE "none"
HelperVal(name, arg) == (IF name = "hA" THEN 10 ELSE 20) + arg
PfVal(id, t, d) == id * (100 * t - d)
HasDpdp == {"F0", "A"}          \* hasattr(self, "d_phase_d_" + p)
HasDddp == {"A", "B"}           \* hasattr(self, "d_delay_d_" + p)
DerivCalls(p) == IF p = "F0" THEN "delay" ELSE IF p = "A" THEN "phase" ELSE "none"
DpdpVal(p, t) == (IF p = "F0" THEN 6 ELSE 10) * t
DddpVal(p, t) == (IF p = "A" THEN 7 ELSE 9) * t

\* Phase: (integer turns, fractional part in units of 1/PhaseDen turn)
PhaseDen == 4
PhaseOf(x) == <<x \div PhaseDen, x % PhaseDen>>
PhaseAdd(a, b) ==
    LET f == a[2] + b[2]
    IN  <<a[1] + b[1] + (f \div PhaseDen), f % PhaseDen>>

\* ------------------------------------------------------------ decorators
UseCacheFns == {"get_prefix_mapping", "phase", "delay", "get_barycentric_toas",
                "d_phase_d_param", "d_phase_d_param_num", "designmatrix"}

\* a use_cache that installs a fresh Cache on every entry, nested or not
use_cached_results_enter_always(c, n) ==
    IF c.kind = "Absent" THEN [cache |-> c, own |-> 0]
    ELSE [cache |-> NewCache(n + 1), own |-> n + 1]

\* Cache.use_cache, on entry: the cache to install and whether this call
\* owns it (own = id of the Cache it created, 0 if it created none)
use_cached_results_enter(c, n) ==
    IF c.kind = "Absent" THEN [cache |-> c, own |-> 0]
    ELSE IF c.kind = "Cache" THEN [cache |-> c, own |-> 0]
    ELSE [cache |-> NewCache(n + 1), own |-> n + 1]

\* a use_cache that sets the cache to None on every return
use_cached_results_exit_reset(c, own) == NoneCache

\* Cache.use_cache, on normal return of the wrapped function
use_cached_results_exit(c, own) == IF own # 0 THEN NoneCache ELSE c

\* a cache_result that looks the stored value up under the wrong name, so
\* never finds it
get_cached_result_nolookup(c, name, arg) ==
    IF c.kind = "Cache"
    THEN [cache |-> [c EXCEPT !.store[name] = HelperVal(name, arg)],
          val |-> HelperVal(name, arg), ran |-> TRUE]
    ELSE [cache |-> c, val |-> HelperVal(name, arg), ran |-> TRUE]

\* Cache.cache_result: the wrapped call of function `name` with `arg`
get_cached_result(c, name, arg) ==
    IF c.kind = "Cache"
    THEN IF c.store[name] # NoVal
         THEN [cache |-> c, val |-> c.store[name], ran |-> FALSE]
         ELSE [cache |-> [c EXCEPT !.store[name] = HelperVal(name, arg)],
               val |-> HelperVal(name, arg), ran |-> TRUE]
    ELSE [cache |-> c, val |-> HelperVal(name, arg), ran |-> TRUE]

\* ---------------------------------------------------------------- threads
ThreadIds == {1, 2}
CallsPerThread == 2   \* cache_result calls made by the wrapped function

\* no thread model: the model is used by one thread
NoThreads == [shared |-> FALSE, n |-> 0, cache |-> <<>>, t |-> <<>>]

\* every thread calls on the same TimingModel
InstanceOf_same(sh, t) == 1

\* args[0], the receiver: the one instance, or the thread's own
InstanceOf(sh, t) == IF sh THEN 1 ELSE t

\* what a step of a thread leaves alone
seqVars == <<cache, params, frozen, F0value, attrs, delay_funcs, phase_funcs,
             pvalue, ctype, stack, top, outcome, result, log, hist, nscopes,
             everRaised>>

NewThread == [pc |-> "call", saw |-> NoneCache, own |-> 0, k |-> 0, used |-> {}]

ThreadsStart(sh) ==
    [shared |-> sh, n |-> 0, cache |-> [i \in ThreadIds |-> NoneCache],
     t |-> [i \in ThreadIds |-> NewThread]]

\* hasattr / getattr(args[0], cls.the_cache) in use_cached_results
thread_test(t) ==
    LET i == InstanceOf(threads.shared, t)
    IN  /\ threads.t[t].pc = "call"
        /\ threads' = [threads EXCEPT !.t[t].saw = threads.cache[i],
                                      !.t[t].pc = "tested"]
        /\ UNCHANGED seqVars

\* isinstance(cache, cls), and setattr(args[0], cls.the_cache, cls()) when
\* it was not
thread_enter(t) ==
    LET i == InstanceOf(threads.shared, t)
        e == use_cached_results_enter(threads.t[t].saw, threads.n)
    IN  /\ threads.t[t].pc = "tested"
        /\ threads' = [threads EXCEPT
                         !.cache[i] = IF e.own # 0 THEN e.cache ELSE @,
                         !.n = IF e.own # 0 THEN @ + 1 ELSE @,
                         !.t[t].own = e.own,
                         !.t[t].pc = "body"]
        /\ UNCHANGED seqVars

\* the wrapped function calls a cache_result function
thread_cached(t) ==
    LET i == InstanceOf(threads.shared, t)
        c == threads.cache[i]
        r == get_cached_result(c, "hA", t)
    IN  /\ threads.t[t].pc = "body"
        /\ threads.t[t].k < CallsPerThread
        /\ threads' = [threads EXCEPT !.cache[i] = r.cache,
                                      !.t[t].used = @ \cup {c.id},
                                      !.t[t].k = @ + 1]
        /\ UNCHANGED seqVars

\* the wrapped function returns: setattr(args[0], cls.the_cache, None) by
\* the call that installed the Cache
thread_return(t) ==
    LET i == InstanceOf(threads.shared, t)
    IN  /\ threads.t[t].pc = "body"
        /\ threads.t[t].k = CallsPerThread
        /\ threads' = [threads EXCEPT
                         !.cache[i] = use_cached_results_exit(@, threads.t[t].own),
                         !.t[t].pc = "done"]
        /\ UNCHANGED seqVars

\* ---------------------------------------------------------------- frames
Frame(fn, toas, arg, opt, own) ==
    [fn |-> fn, pc |-> "start", own |-> own, toas |-> toas, arg |-> arg,
     opt |-> opt, idx |-> 1, acc |-> <<>>, ret |-> NoResult, order |-> <<>>]

NoOpt == [incfrozen |-> FALSE, incoffset |-> TRUE]
Running == stack # <<>>
Cur == Last(stack)

\* the call of a cache_result function, as a log event: what it returned,
\* whether the body ran, the scope it ran in and the previous call's scope
HelperEvent(name, arg, r, c, h) ==
    [ev |-> "helper", name |-> name, arg |-> arg, val |-> r.val, ran |-> r.ran,
     sid |-> c.id, psid |-> h[name].sid, pval |-> h[name].val]

\* the model attributes set by TimingModel.__init__
InitBare ==
    /\ params = <<"PSR">>
    /\ frozen = [n \in AllNames |-> TRUE]
    /\ F0value = 0
    /\ attrs = {"PSR"}
    /\ delay_funcs = [L1 |-> <<>>, L2 |-> <<>>]
    /\ phase_funcs = <<>>
    /\ pvalue = [n \in AllNames \cup ParfileNames |-> ""]
    /\ ctype = "plain"
    /\ threads = NoThreads

\* no call made yet
InitEval ==
    /\ cache = NoneCache
    /\ stack = <<>>
    /\ top = [fn |-> "none", toas |-> <<>>, arg |-> "", opt |-> NoOpt, own |-> 0]
    /\ outcome = "idle"
    /\ result = NoResult
    /\ log = <<>>
    /\ hist = [f \in CachedFuncs |-> [sid |-> 0, val |-> NoVal]]
    /\ nscopes = 0
    /\ everRaised = FALSE

Init == InitBare /\ InitEval

evalVars == <<cache, stack, hist, nscopes, everRaised>>
NoTop == [fn |-> "none", toas |-> <<>>, arg |-> "", opt |-> NoOpt, own |-> 0]
\* the model has changed: what the last call returned no longer describes it
ClearLast ==
    /\ outcome' = "idle"
    /\ result' = NoResult
    /\ log' = <<>>
    /\ top' = NoTop
modelVars == <<params, frozen, F0value, attrs, delay_funcs, phase_funcs,
               pvalue, ctype, threads>>

\* ---------------------------------------------------------- construction
\* TimingModel.add_param
add_param(name, fr, val) ==
    /\ ~Running
    /\ Len(params) < MaxParams
    /\ attrs' = attrs \cup {name}
    /\ params' = Append(params, name)
    /\ frozen' = [frozen EXCEPT ![name] = fr]
    /\ F0value' = IF name = "F0" THEN val ELSE F0value
    /\ UNCHANGED <<delay_funcs, phase_funcs, pvalue, ctype, threads>>
    /\ ClearLast
    /\ UNCHANGED evalVars

\* self.delay_funcs[level] += [f]
register_delay(level) ==
    LET ord == IF level = "L1" THEN L1Order ELSE L2Order
        n == Len(delay_funcs[level])
    IN  /\ ~Running
        /\ n < Len(ord)
        /\ delay_funcs' = [delay_funcs EXCEPT ![level] = Append(@, ord[n + 1])]
        /\ UNCHANGED <<params, frozen, F0value, attrs, phase_funcs, pvalue, ctype, threads>>
        /\ ClearLast
        /\ UNCHANGED evalVars

\* self.phase_funcs += [f]
register_phase ==
    /\ ~Running
    /\ Len(phase_funcs) < Len(PhaseOrder)
    /\ phase_funcs' = Append(phase_funcs, PhaseOrder[Len(phase_funcs) + 1])
    /\ UNCHANGED <<params, frozen, F0value, attrs, delay_funcs, pvalue, ctype, threads>>
    /\ ClearLast
    /\ UNCHANGED evalVars

\* ------------------------------------------------------ calls and returns
\* a call of `fn` made with the stack `stk` (the caller, if any, on top)
Invoke(stk, fn, toas, arg, opt) ==
    LET e == IF fn \in UseCacheFns
             THEN use_cached_results_enter(cache, nscopes)
             ELSE [cache |-> cache, own |-> 0]
    IN  /\ (e.own # 0) => nscopes < MaxScopes
        /\ cache' = e.cache
        /\ nscopes' = IF e.own # 0 THEN nscopes + 1 ELSE nscopes
        /\ stack' = Append(stk, Frame(fn, toas, arg, opt, e.own))

\* the frame on top calls `fn` and will resume at `cont`
Push(cont, fn, toas, arg, opt, acc) ==
    /\ Invoke([stack EXCEPT ![Len(stack)] = [@ EXCEPT !.pc = cont, !.acc = acc]],
              fn, toas, arg, opt)
    /\ UNCHANGED <<outcome, result, everRaised, top>>

\* the frame on top returns `val`; `c` is the cache as this step leaves it
Return(val, c) ==
    /\ cache' = IF Cur.fn \in UseCacheFns
                THEN use_cached_results_exit(c, Cur.own) ELSE c
    /\ IF Len(stack) = 1
       THEN /\ stack' = <<>>
            /\ outcome' = "returned"
            /\ result' = val
       ELSE /\ stack' = [Front(stack) EXCEPT ![Len(stack) - 1].ret = val]
            /\ UNCHANGED <<outcome, result>>
    /\ UNCHANGED <<nscopes, everRaised, top>>

\* an exception leaves the frame on top: no handler anywhere on the stack
\* (use_cached_results has no try/finally), so the whole stack unwinds
Raise(err, c) ==
    /\ cache' = c
    /\ stack' = <<>>
    /\ outcome' = "raised"
    /\ result' = Val("error", err)
    /\ everRaised' = TRUE
    /\ UNCHANGED <<nscopes, top>>

\* a top-level call made by the user of the model
Call(fn, toas, arg, opt) ==
    /\ ~Running
    /\ Invoke(<<>>, fn, toas, arg, opt)
    /\ top' = [fn |-> fn, toas |-> toas, arg |-> arg, opt |-> opt,
               own |-> stack'[1].own]
    /\ outcome' = "running"
    /\ result' = NoResult
    /\ log' = <<>>
    /\ UNCHANGED <<hist, everRaised>>
    /\ UNCHANGED modelVars

\* a component function consults its cache_result-wrapped helper:
\* st = [cache, log, hist, acc] before, the same record after
Consult(st, id) ==
    LET name == HelperOf(id)
        r == get_cached_result(st.cache, name, id)
    IN  IF name = "none" THEN st
        ELSE [st EXCEPT !.cache = r.cache,
                        !.log = Append(@, HelperEvent(name, id, r, st.cache, st.hist)),
                        !.hist[name] = [sid |-> st.cache.id, val |-> r.val]]

\* one `delay += df(toas)`: the function consults its helper and returns
CallDf(st, id, toas) ==
    LET k == Consult(st, id)
    IN  [k EXCEPT !.log = Append(@, [ev |-> "df", id |-> id, toas |-> toas]),
                  !.acc = VecAdd(@, [i \in 1..Len(toas) |-> DfVal(id, toas[i])])]

\* the loop over a list of delay functions, the first n of them
RECURSIVE RunDfs(_, _, _, _)
RunDfs(st, ids, n, toas) ==
    IF n = 0 THEN st
    ELSE CallDf(RunDfs(st, ids, n - 1, toas), ids[n], toas)

Here == [cache |-> cache, log |-> log, hist |-> hist, acc |-> <<>>]

\* ------------------------------------------------------ TimingModel.delay
\* the orders in which self.delay_funcs.keys() can yield the two levels
KeysOrders == {<<"L1", "L2">>, <<"L2", "L1">>}

\* a delay that stops after the first level the table yields
DelayOrder_onelevel(ko) == delay_funcs[ko[1]]

\* the functions in the order the two nested loops reach them
DelayOrder(ko) == delay_funcs[ko[1]] \o delay_funcs[ko[2]]

\* the body of delay: r = 0 when every function returns, otherwise the
\* r-th function called raises
delay_body ==
    /\ Running /\ Cur.fn = "delay" /\ Cur.pc = "start"
    /\ \E ko \in KeysOrders : \E r \in 0..Len(DelayOrder(ko)) :
         LET ids == DelayOrder(ko)
             st0 == [Here EXCEPT !.acc = zeros(Len(Cur.toas)),
                                 !.log = Append(@, [ev |-> "delay", toas |-> Cur.toas])]
             st == RunDfs(st0, ids, IF r = 0 THEN Len(ids) ELSE r, Cur.toas)
         IN  /\ log' = st.log
             /\ hist' = st.hist
             /\ IF r = 0
                THEN Return(Val("vec", st.acc), st.cache)
                ELSE Raise("df", st.cache)
    /\ UNCHANGED modelVars

\* ------------------------------------------------------ TimingModel.phase
\* Phase(np.zeros(len(toas)), np.zeros(len(toas)))
ZeroPhase(n) == [i \in 1..n |-> <<0, 0>>]

\* phase += Phase(pf(toas, delay)), for the first n phase functions
RECURSIVE RunPfs(_, _, _, _)
RunPfs(st, n, toas, d) ==
    IF n = 0 THEN st
    ELSE LET p == RunPfs(st, n - 1, toas, d)
             id == phase_funcs[n]
         IN  [p EXCEPT !.log = Append(@, [ev |-> "pf", id |-> id,
                                          toas |-> toas, d |-> d]),
                       !.acc = [i \in 1..Len(toas) |->
                                  PhaseAdd(@[i], PhaseOf(PfVal(id, toas[i], d[i])))]]

\* delay = self.delay(toas)
phase_start ==
    /\ Running /\ Cur.fn = "phase" /\ Cur.pc = "start"
    /\ Push("loop", "delay", Cur.toas, "", NoOpt, <<>>)
    /\ log' = Append(log, [ev |-> "phase", toas |-> Cur.toas])
    /\ UNCHANGED hist
    /\ UNCHANGED modelVars

\* the loop over self.phase_funcs: r = 0 when every function returns,
\* otherwise the r-th phase function raises
phase_loop ==
    /\ Running /\ Cur.fn = "phase" /\ Cur.pc = "loop"
    /\ \E r \in 0..Len(phase_funcs) :
         LET st0 == [Here EXCEPT !.acc = ZeroPhase(Len(Cur.toas))]
             st == RunPfs(st0, IF r = 0 THEN Len(phase_funcs) ELSE r,
                          Cur.toas, Cur.ret.v)
         IN  /\ log' = st.log
             /\ IF r = 0
                THEN Return(Val("phase", st.acc), cache)
                ELSE Raise("pf", cache)
    /\ UNCHANGED hist
    /\ UNCHANGED modelVars

\* --------------------------------------- TimingModel.get_barycentric_toas
SecPerDay == 86400

\* a subtotal that runs the functions of both levels
BaryOrder_bothlevels == delay_funcs["L1"] \o delay_funcs["L2"]

\* for df in self.delay_funcs['L1']
BaryOrder == delay_funcs["L1"]

\* toasObs*u.day - delay*u.second, in seconds (toasObs is the tdbld column)
toasBary(toas, delay) ==
    [i \in 1..Len(toas) |-> SecPerDay * toas[i] - delay[i]]

\* the body of get_barycentric_toas: r = 0 when every function returns,
\* otherwise the r-th function called raises
get_barycentric_toas_body ==
    /\ Running /\ Cur.fn = "get_barycentric_toas" /\ Cur.pc = "start"
    /\ \E r \in 0..Len(BaryOrder) :
         LET ids == BaryOrder
             st0 == [Here EXCEPT !.acc = zeros(Len(Cur.toas))]
             st == RunDfs(st0, ids, IF r = 0 THEN Len(ids) ELSE r, Cur.toas)
         IN  /\ log' = st.log
             /\ hist' = st.hist
             /\ IF r = 0
                THEN Return(Val("time", toasBary(Cur.toas, st.acc)), st.cache)
                ELSE Raise("df", st.cache)
    /\ UNCHANGED modelVars

\* ---------------------------------------------- TimingModel.d_phase_d_toa
TimeIntvals == {4, 8}
NumSamples == {1, 2, 3, 4}
\* the method argument, and whether the string passed is the very object
\* of the literal "chebyshev" in the code (the test is `is`, not ==)
Methods == {[name |-> "None", same |-> FALSE], [name |-> "FDM", same |-> FALSE],
            [name |-> "chebyshev", same |-> TRUE],
            [name |-> "chebyshev", same |-> FALSE]}
ToaOpts == [time_intval : TimeIntvals, method : Methods, num_sample : NumSamples]

\* truth value of a string
Truthy(str) == str # ""
\* if method is None or "FDM":
fdm_selected(method) == method.name = "None" \/ Truthy("FDM")
\* if method is "chebyshev":
chebyshev_selected(method) == method.name = "chebyshev" /\ method.same

\* a sample count taken as the caller gave it
odd_samples_asis(n) == n

\* num_sample = int(num_sample)/2*2+1
odd_samples(n) == (n \div 2) * 2 + 1

\* np.linspace(a, b, n)
linspace(a, b, n) ==
    IF n = 1 THEN <<a>>
    ELSE [k \in 1..n |-> a + ((k - 1) * (b - a)) \div (n - 1)]

\* domain = (toa_utc_ld-time_intval/2.0, toa_utc_ld+time_intval/2.0) and
\* sample = np.linspace(domain[0], domain[1], num_sample); times in days
Sample(t, time_intval, n) ==
    linspace(t - time_intval \div 2, t + time_intval \div 2, n)

\* np.modf(sample_time): fractional and integral part (the model's times
\* are whole days)
modf(x) == <<0, x>>
\* toa.get_TOAs_list of one toa.TOA((np.modf(t)[1], np.modf(t)[0])) per
\* sample time: the table of those times
sample_toalist(sample) ==
    [k \in DOMAIN sample |-> modf(sample[k])[2] + modf(sample[k])[1]]

SeqMin(q) == CHOOSE x \in Range(q) : \A y \in Range(q) : x <= y
\* p = ph.int - ph.int.min() + ph.frac, in units of 1/PhaseDen
PhaseSamples(ph) ==
    LET m == SeqMin([k \in DOMAIN ph |-> ph[k][1]])
    IN  [k \in DOMAIN ph |-> (ph[k][1] - m) * PhaseDen + ph[k][2]]
\* reduce_samepl = (sample - sample.min()) * 86400.0
reduce_samepl(sample) ==
    [k \in DOMAIN sample |-> (sample[k] - SeqMin(sample)) * SecPerDay]

\* d_phase_d_toa = np.zeros(len(toas))
NoEstimate == [kind |-> "zero", at |-> 0, x |-> <<>>, p |-> <<>>]
\* dp[num_sample/2] or dy[num_sample/2]: the estimate of `kind` from the
\* samples (x, p), taken at 0-based index n/2
Estimate(kind, x, p, n) == [kind |-> kind, at |-> n \div 2 + 1, x |-> x, p |-> p]

\* entry, and the head of `for i, singal_toa in enumerate(toas)` in the
\* block in progress: resample around the observation and call self.phase
d_phase_d_toa_sample ==
    /\ Running /\ Cur.fn = "d_phase_d_toa" /\ Cur.pc \in {"start", "loop"}
    /\ LET a == IF Cur.pc = "start"
                THEN [block |-> "fdm", n |-> odd_samples(Cur.opt.num_sample),
                      out |-> [i \in 1..Len(Cur.toas) |-> NoEstimate],
                      sample |-> <<>>]
                ELSE Cur.acc
           sample == Sample(Cur.toas[Cur.idx], Cur.opt.time_intval, a.n)
       IN  /\ Cur.pc = "start" => fdm_selected(Cur.opt.method)
           /\ Cur.idx <= Len(Cur.toas)
           /\ Push("est", "phase", sample_toalist(sample), "", NoOpt,
                   [a EXCEPT !.sample = sample])
           /\ log' = Append(log, [ev |-> "window", block |-> a.block,
                                  obs |-> Cur.idx, sample |-> sample])
    /\ UNCHANGED hist
    /\ UNCHANGED modelVars

\* self.phase has returned ph: the estimate for this observation; np.gradient
\* raises on fewer than two samples
d_phase_d_toa_est ==
    /\ Running /\ Cur.fn = "d_phase_d_toa" /\ Cur.pc = "est"
    /\ LET a == Cur.acc
           x == reduce_samepl(a.sample)
           pp == PhaseSamples(Cur.ret.v)
       IN  IF a.block = "fdm" /\ a.n < 2
           THEN Raise("ValueError", cache)
           ELSE /\ stack' = [stack EXCEPT ![Len(stack)] =
                       [@ EXCEPT !.acc.out[Cur.idx] = Estimate(a.block, x, pp, a.n),
                                 !.idx = @ + 1, !.pc = "loop"]]
                /\ UNCHANGED <<cache, nscopes, outcome, result, everRaised, top>>
    /\ UNCHANGED <<log, hist>>
    /\ UNCHANGED modelVars

\* the end of a block: go on to the chebyshev block, or return
d_phase_d_toa_next ==
    /\ Running /\ Cur.fn = "d_phase_d_toa"
    /\ \/ Cur.pc = "loop" /\ Cur.idx > Len(Cur.toas)
       \/ Cur.pc = "start" /\ Cur.toas = <<>>
    /\ LET a == IF Cur.pc = "start"
                THEN [block |-> "fdm", n |-> odd_samples(Cur.opt.num_sample),
                      out |-> <<>>, sample |-> <<>>]
                ELSE Cur.acc
       IN  IF a.block = "fdm" /\ chebyshev_selected(Cur.opt.method)
              /\ Cur.toas # <<>>
           THEN /\ stack' = [stack EXCEPT ![Len(stack)] =
                       [@ EXCEPT !.acc = [a EXCEPT !.block = "chebyshev"],
                                 !.idx = 1, !.pc = "loop"]]
                /\ UNCHANGED <<cache, nscopes, outcome, result, everRaised, top>>
           ELSE Return(Val("dpdt", a.out), cache)
    /\ UNCHANGED <<log, hist>>
    /\ UNCHANGED modelVars

call_d_phase_d_toa ==
    \E t \in ToaTables, o \in ToaOpts : Call("d_phase_d_toa", t, "", o)

\* ---------------------------------------------- TimingModel.d_phase_d_param
d_phase_d_param_start ==
    /\ Running /\ Cur.fn = "d_phase_d_param" /\ Cur.pc = "start"
    /\ IF Cur.arg \in HasDpdp
       THEN Push("ret", "d_phase_d_X", Cur.toas, Cur.arg, NoOpt, <<>>)
       ELSE Push("ret", "d_phase_d_param_num", Cur.toas, Cur.arg, NoOpt, <<>>)
    /\ UNCHANGED <<log, hist>>
    /\ UNCHANGED modelVars

d_phase_d_param_return ==
    /\ Running /\ Cur.fn = "d_phase_d_param" /\ Cur.pc = "ret"
    /\ Return(Cur.ret, cache)
    /\ UNCHANGED <<log, hist>>
    /\ UNCHANGED modelVars

\* TimingModel.d_phase_d_param_num
d_phase_d_param_num ==
    /\ Running /\ Cur.fn = "d_phase_d_param_num" /\ Cur.pc = "start"
    /\ log' = Append(log, [ev |-> "num", p |-> Cur.arg])
    /\ Return(Val("scalar", 0), cache)
    /\ UNCHANGED hist
    /\ UNCHANGED modelVars

\* --------------------------------- analytic derivatives of the components
DpdpVec(p, toas) == [i \in 1..Len(toas) |-> DpdpVal(p, toas[i])]
DddpVec(p, toas) == [i \in 1..Len(toas) |-> DddpVal(p, toas[i])]

\* d_phase_d_<p>(toas): may evaluate self.delay or self.phase first
d_phase_d_X_start ==
    /\ Running /\ Cur.fn = "d_phase_d_X" /\ Cur.pc = "start"
    /\ log' = Append(log, [ev |-> "dpdp", p |-> Cur.arg])
    /\ \/ Raise("dpdp", cache)
       \/ /\ DerivCalls(Cur.arg) = "none"
          /\ Return(Val("vec", DpdpVec(Cur.arg, Cur.toas)), cache)
       \/ /\ DerivCalls(Cur.arg) # "none"
          /\ Push("fin", DerivCalls(Cur.arg), Cur.toas, "", NoOpt, <<>>)
    /\ UNCHANGED hist
    /\ UNCHANGED modelVars

d_phase_d_X_return ==
    /\ Running /\ Cur.fn = "d_phase_d_X" /\ Cur.pc = "fin"
    /\ Return(Val("vec", DpdpVec(Cur.arg, Cur.toas)), cache)
    /\ UNCHANGED <<log, hist>>
    /\ UNCHANGED modelVars

\* d_delay_d_<p>(toas)
d_delay_d_X ==
    /\ Running /\ Cur.fn = "d_delay_d_X" /\ Cur.pc = "start"
    /\ log' = Append(log, [ev |-> "dddp", p |-> Cur.arg])
    /\ \/ Raise("dddp", cache)
       \/ Return(Val("vec", DddpVec(Cur.arg, Cur.toas)), cache)
    /\ UNCHANGED hist
    /\ UNCHANGED modelVars

\* -------------------------------------------- TimingModel.d_delay_d_param
\* the names the import statements of timing_model.py bind
ModuleNames == {"functools", "strParameter", "Phase", "log", "np", "toa",
                "utils", "u"}

\* self.delay_derivs[param]: the derivative functions a component has
\* registered for the parameter
delay_derivs(param) == IF param \in HasDddp THEN <<param>> ELSE <<>>

\* result += f(toas) for the first n registered functions, from zeros
RECURSIVE SumDerivs(_, _, _)
SumDerivs(fs, n, toas) ==
    IF n = 0 THEN zeros(Len(toas))
    ELSE VecAdd(SumDerivs(fs, n - 1, toas), DddpVec(fs[n], toas))

d_delay_d_param(toas, param) ==
    LET fs == delay_derivs(param)
        bound == "numpy" \in ModuleNames
    IN  /\ ~Running
        /\ top' = [fn |-> "d_delay_d_param", toas |-> toas, arg |-> param,
                   opt |-> NoOpt, own |-> 0]
        /\ log' = <<>>
        /\ outcome' = IF bound THEN "returned" ELSE "raised"
        /\ result' = IF bound THEN Val("vec", SumDerivs(fs, Len(fs), toas))
                     ELSE Val("error", "NameError")
        /\ UNCHANGED <<cache, stack, hist, nscopes, everRaised>>
        /\ UNCHANGED modelVars

call_d_delay_d_param ==
    \E t \in ToaTables, p \in HasDddp : d_delay_d_param(t, p)

\* ------------------------------------------------ TimingModel.designmatrix
\* rational numbers <<numerator, denominator>>
Zero == <<0, 1>>
One == <<1, 1>>
\* np.zeros((ntoas, nparams)), stored column by column
ZeroMatrix(ntoas, nparams) == [c \in 1..nparams |-> [r \in 1..ntoas |-> Zero]]

\* a column selection that ignores the frozen flags
dm_params_all(ps, fz, incfrozen, incoffset) ==
    (IF incoffset THEN <<"Offset">> ELSE <<>>) \o ps

\* params = ['Offset',] if incoffset else []
\* params += [par for par in self.params if incfrozen or not par.frozen]
dm_params(ps, fz, incfrozen, incoffset) ==
    (IF incoffset THEN <<"Offset">> ELSE <<>>)
        \o SelectSeq(ps, LAMBDA p : incfrozen \/ ~fz[p])

\* M[:,ii] = 1.0 ; units.append(u.s/u.s)
dm_offset(a, ii, ntoas) ==
    [a EXCEPT !.M[ii] = [r \in 1..ntoas |-> One],
              !.units = Append(@, <<"dimensionless">>)]

\* a phase-derivative column that is not converted with F0
dm_phase_col_nodiv(a, ii, param, q, F0) ==
    [a EXCEPT !.M[ii] = [r \in 1..Len(q) |-> <<q[r], 1>>],
              !.units = Append(@, <<"d_phase_d", param, "s">>)]

\* q = d_phase_d_<param>(toas) / F0 ; M[:,ii] = q ; units.append(q.unit)
dm_phase_col(a, ii, param, q, F0) ==
    [a EXCEPT !.M[ii] = [r \in 1..Len(q) |-> <<q[r], F0>>],
              !.units = Append(@, <<"d_phase_d", param, "s">>)]

\* q = d_delay_d_<param>(toas) ; M[:,ii] = q ; units.append(q.unit)
dm_delay_col(a, ii, param, q) ==
    [a EXCEPT !.M[ii] = [r \in 1..Len(q) |-> <<q[r], 1>>],
              !.units = Append(@, <<"d_delay_d", param>>)]

\* lines 354-361: the column names, F0, then delay = self.delay(toas)
designmatrix_start ==
    /\ Running /\ Cur.fn = "designmatrix" /\ Cur.pc = "start"
    /\ LET names == dm_params(params, frozen, Cur.opt.incfrozen, Cur.opt.incoffset)
       IN  IF "F0" \notin attrs
           THEN Raise("AttributeError", cache)
           ELSE Push("loop", "delay", Cur.toas, "", NoOpt,
                     [M |-> ZeroMatrix(Len(Cur.toas), Len(names)),
                      params |-> names, units |-> <<>>])
    /\ UNCHANGED <<log, hist>>
    /\ UNCHANGED modelVars

\* one iteration of `for ii, param in enumerate(params)`, up to the call
\* of the derivative function if there is one
designmatrix_loop ==
    /\ Running /\ Cur.fn = "designmatrix" /\ Cur.pc = "loop"
    /\ Cur.idx <= Len(Cur.acc.params)
    /\ LET param == Cur.acc.params[Cur.idx]
       IN  IF param = "Offset"
           THEN /\ stack' = [stack EXCEPT ![Len(stack)] =
                       [@ EXCEPT !.acc = dm_offset(@, Cur.idx, Len(Cur.toas)),
                                 !.idx = @ + 1]]
                /\ UNCHANGED <<cache, nscopes, outcome, result, everRaised, top>>
           ELSE IF param \in HasDpdp
           THEN Push("col_phase", "d_phase_d_X", Cur.toas, param, NoOpt, Cur.acc)
           ELSE IF param \in HasDddp
           THEN Push("col_delay", "d_delay_d_X", Cur.toas, param, NoOpt, Cur.acc)
           ELSE /\ stack' = [stack EXCEPT ![Len(stack)] = [@ EXCEPT !.idx = @ + 1]]
                /\ UNCHANGED <<cache, nscopes, outcome, result, everRaised, top>>
    /\ UNCHANGED <<log, hist>>
    /\ UNCHANGED modelVars

\* the derivative function has returned q: fill the column
designmatrix_col ==
    /\ Running /\ Cur.fn = "designmatrix" /\ Cur.pc \in {"col_phase", "col_delay"}
    /\ LET param == Cur.acc.params[Cur.idx]
           a == IF Cur.pc = "col_phase"
                THEN dm_phase_col(Cur.acc, Cur.idx, param, Cur.ret.v, F0value)
                ELSE dm_delay_col(Cur.acc, Cur.idx, param, Cur.ret.v)
       IN  stack' = [stack EXCEPT ![Len(stack)] =
                       [@ EXCEPT !.acc = a, !.idx = @ + 1, !.pc = "loop"]]
    /\ UNCHANGED <<cache, nscopes, outcome, result, everRaised, top, log, hist>>
    /\ UNCHANGED modelVars

\* return M, params, units
designmatrix_return ==
    /\ Running /\ Cur.fn = "designmatrix" /\ Cur.pc = "loop"
    /\ Cur.idx > Len(Cur.acc.params)
    /\ Return(Val("dm", Cur.acc), cache)
    /\ UNCHANGED <<log, hist>>
    /\ UNCHANGED modelVars

\* --------------------------------------------------------- top-level calls
call_delay == \E t \in ToaTables : Call("delay", t, "", NoOpt)
call_phase == \E t \in ToaTables : Call("phase", t, "", NoOpt)
call_get_barycentric_toas ==
    \E t \in ToaTables : Call("get_barycentric_toas", t, "", NoOpt)
call_d_phase_d_param ==
    \E t \in ToaTables, p \in AllNames : Call("d_phase_d_param", t, p, NoOpt)
call_designmatrix ==
    \E t \in ToaTables, f \in BOOLEAN, o \in BOOLEAN :
        Call("designmatrix", t, "", [incfrozen |-> f, incoffset |-> o])

\* a cache_result-wrapped method called directly by the user
call_cached ==
    \E name \in CachedFuncs, arg \in {5, 6} :
        LET r == get_cached_result(cache, name, arg)
        IN  /\ ~Running
            /\ cache' = r.cache
            /\ log' = <<HelperEvent(name, arg, r, cache, hist)>>
            /\ hist' = [hist EXCEPT ![name] = [sid |-> cache.id, val |-> r.val]]
            /\ top' = [fn |-> name, toas |-> <<>>, arg |-> "", opt |-> NoOpt,
                       own |-> 0]
            /\ outcome' = "returned"
            /\ result' = Val("helper", r.val)
            /\ UNCHANGED <<stack, nscopes, everRaised>>
            /\ UNCHANGED modelVars

\* the steps of the calls in progress
Steps ==
    \/ delay_body
    \/ phase_start
    \/ phase_loop
    \/ d_phase_d_param_start
    \/ d_phase_d_param_return
    \/ d_phase_d_param_num
    \/ d_phase_d_X_start
    \/ d_phase_d_X_return
    \/ d_delay_d_X
    \/ designmatrix_start
    \/ designmatrix_loop
    \/ designmatrix_col
    \/ designmatrix_return

\* ------------------------------------------------ TimingModel.read_parfile
MaxLines == 3         \* longest parfile read

ignore_params == {"START", "FINISH", "SOLARN0", "EPHEM", "CLK", "UNITS",
                  "TIMEEPH", "T2CMETHOD", "CORRECT_TROPOSPHERE", "DILATEFREQ",
                  "NTOA", "CLOCK", "TRES", "TZRMJD", "TZRFRQ", "TZRSITE",
                  "NITS", "IBOOT", "BINARY"}
ignore_prefix == {"DMXF1_", "DMXF2_", "DMXEP_"}

\* A word of a line is a string base \o sfx: base is the word as written in
\* the file, sfx the digits read_parfile has appended to it.
Word(b) == [base |-> b, sfx |-> ""]
Text(w) == w.base \o w.sfx

\* A line of the file: its whitespace-separated words and whether
\* whitespace follows the last word.
NameWords == {"A", "a", "A2", "PSRJ", "EPHEM", "ephem", "SOLARN0", "DMXEP_1",
              "JUNK"}
LineKinds == NameWords \cup {"blank", "#", "C", "C-bare"}
MkLine(kind, i) ==
    IF kind = "blank" THEN [w |-> <<>>, trail |-> TRUE]
    ELSE IF kind = "C-bare" THEN [w |-> <<Word("C")>>, trail |-> TRUE]
    ELSE IF kind \in {"#", "C"}
    THEN [w |-> <<Word(kind), Word("A"), Word(ToString(i))>>, trail |-> FALSE]
    ELSE [w |-> <<Word(kind), Word(ToString(i))>>, trail |-> FALSE]
Files == UNION {[1..n -> LineKinds] : n \in 0..MaxLines}

\* pl.strip()
strip(l) == [l EXCEPT !.trail = FALSE]
\* l.startswith('#') or l[:2] == "C "
IsComment(l) ==
    \/ Text(l.w[1]) = "#"
    \/ Text(l.w[1]) = "C" /\ (Len(l.w) >= 2 \/ l.trail)
\* str.upper()
UpperBase(b) == IF b = "a" THEN "A" ELSE IF b = "ephem" THEN "EPHEM" ELSE b
Upper(w) == UpperBase(w.base) \o w.sfx

\* aliases of the parameters (PSR: timing_model.py line 141)
AliasesOf(par) ==
    IF par = "PSR" THEN {"PSRJ", "PSRB"} ELSE IF par = "A" THEN {"AL"} ELSE {}

\* Parameter.from_parfile_line: does the parameter take the line
from_parfile_line(par, words) ==
    /\ Upper(words[1]) = par \/ Upper(words[1]) \in AliasesOf(par)
    /\ Len(words) >= 2

\* utils.split_prefixed_name: the prefix of a name that ends in digits,
\* "" when the name has no index (ValueError)
split_prefixed_name(w) ==
    IF w.base = "A2" THEN "A"
    ELSE IF w.base = "SOLARN0" THEN "SOLARN"
    ELSE IF w.base = "DMXEP_1" THEN "DMXEP_"
    ELSE IF w.sfx # "" THEN w.base
    ELSE ""

\* an occurrence counter that is not advanced after the second occurrence
repeat_next_stuck(rep, name) == 2

\* repeat_param[name] += 1, or = 2 the first time the name repeats
repeat_next(rep, name) == IF name \in DOMAIN rep THEN rep[name] + 1 ELSE 2

\* for par in self.params: if getattr(self, par).from_parfile_line(l): ...
\* st after the first n parameters have been offered line i
RECURSIVE OfferAll(_, _, _, _)
OfferAll(st, i, words, n) ==
    IF n = 0 THEN st
    ELSE LET q == OfferAll(st, i, words, n - 1)
             par == params[n]
             ok == from_parfile_line(par, words)
         IN  [q EXCEPT !.log = Append(@, [ev |-> "offer", line |-> i,
                                          text |-> Text(words[1]),
                                          par |-> par, ok |-> ok]),
                       !.parsed = @ \/ ok,
                       !.pvalue[par] = IF ok THEN Text(words[2]) ELSE @]

\* the body of the loop over the lines, for line i
ReadLine(st, i, raw) ==
    LET l == strip(raw)
    IN  IF l.w = <<>> THEN st
        ELSE IF IsComment(l) THEN st
        ELSE
          LET name == Upper(l.w[1])
              rep == name \in Range(st.checked)
              cnt == repeat_next(st.repeat, name)
              k0 == IF rep THEN [l.w[1] EXCEPT !.sfx = @ \o ToString(cnt)]
                    ELSE l.w[1]
              words == <<k0>> \o Tail(l.w)
              st1 == [st EXCEPT !.repeat = IF rep THEN (name :> cnt) @@ @ ELSE @,
                                !.parsed = FALSE]
              st2 == OfferAll(st1, i, words, Len(params))
              prefix == split_prefixed_name(k0)
              warn == IF prefix # "" THEN prefix \notin ignore_prefix
                      ELSE Text(k0) \notin ignore_params
          IN  [st2 EXCEPT !.log = IF ~st2.parsed /\ warn
                                  THEN Append(@, [ev |-> "warn", line |-> i,
                                                  text |-> Text(k0)])
                                  ELSE @,
                          !.checked = Append(@, name)]

RECURSIVE ReadLines(_, _)
ReadLines(file, n) ==
    IF n = 0
    THEN [checked |-> <<>>, repeat |-> [x \in {} |-> 0], log |-> <<>>,
          parsed |-> FALSE, pvalue |-> pvalue]
    ELSE ReadLine(ReadLines(file, n - 1), n, MkLine(file[n], n))

\* setup() of the components: a required parameter has no value
setup_raises(pv) == pv["A"] = ""

read_parfile(file) ==
    LET st == ReadLines(file, Len(file))
        bad == setup_raises(st.pvalue)
    IN  /\ ~Running
        /\ pvalue' = st.pvalue
        /\ log' = Append(st.log, [ev |-> "setup"])
        /\ outcome' = IF bad THEN "raised" ELSE "returned"
        /\ result' = IF bad THEN Val("error", "MissingParameter") ELSE Val("none", 0)
        /\ top' = [fn |-> "read_parfile", toas |-> <<>>, arg |-> file,
                   opt |-> NoOpt, own |-> 0]
        /\ UNCHANGED <<params, frozen, F0value, attrs, delay_funcs, phase_funcs,
                       ctype, threads>>
        /\ UNCHANGED evalVars

\* ----------------------------------------------- TimingModel.is_in_parfile
BinaryModelName == "BT"
DictNames == {"PSR", "PSRJ", "A", "AL", "NO_SS_SHAPIRO"}
\* para_dict: its keys other than BINARY, and para_dict['BINARY'][0]
\* ("" when the key BINARY is absent)
ParaDicts == [keys : SUBSET DictNames, binary : {"", "BT", "DD"}]

\* del pNames_inModel[pNames_inModel.index('PSR')], nothing when absent
DelFirst(s, x) ==
    IF \E i \in DOMAIN s : s[i] = x
    THEN LET i == CHOOSE i \in DOMAIN s :
                      s[i] = x /\ \A j \in 1..(i - 1) : s[j] # x
         IN  SubSeq(s, 1, i - 1) \o SubSeq(s, i + 1, Len(s))
    ELSE s

\* for p in pNames_inModel: ... aliases ...: the first n names examined
RECURSIVE alias_match(_, _, _)
alias_match(names, keys, n) ==
    IF n = 0 THEN FALSE
    ELSE \/ alias_match(names, keys, n - 1)
         \/ AliasesOf(names[n]) \cap keys # {}

is_in_parfile_value(names, d) ==
    IF ctype = "shapiro" THEN "NO_SS_SHAPIRO" \notin d.keys
    ELSE IF ctype = "binary" /\ d.binary # "" THEN BinaryModelName = d.binary
    ELSE IF d.keys \cap Range(names) # {} THEN TRUE
    ELSE alias_match(names, d.keys, Len(names))

is_in_parfile(d) ==
    LET pNames_inModel == DelFirst(params, "PSR")
    IN  /\ ~Running
        /\ params' = pNames_inModel
        /\ log' = <<[ev |-> "params", before |-> params]>>
        /\ outcome' = "returned"
        /\ result' = Val("bool", is_in_parfile_value(pNames_inModel, d))
        /\ top' = [fn |-> "is_in_parfile", toas |-> <<>>, arg |-> d,
                   opt |-> NoOpt, own |-> 0]
        /\ UNCHANGED <<frozen, F0value, attrs, delay_funcs, phase_funcs,
                       pvalue, ctype, threads>>
        /\ UNCHANGED evalVars

\* ---------------------------------------------------------- specifications
\* Spec: every evaluation entry point, on a model composed of components
\* that register delay and phase functions and the parameters F0, A, B, or
\* on the bare TimingModel
InitComposite ==
    /\ InitEval
    /\ \/ /\ params = <<"PSR", "F0", "A", "B">>
          /\ attrs = {"PSR", "F0", "A", "B"}
          /\ frozen = [n \in AllNames |-> n \notin {"F0", "A"}]
          /\ F0value = 2
          /\ delay_funcs = [L1 |-> <<2, 1>>, L2 |-> <<3>>]
          /\ phase_funcs = <<2>>
          /\ pvalue = [n \in AllNames \cup ParfileNames |-> ""]
          /\ ctype = "plain"
          /\ threads = NoThreads
       \/ InitBare

Next ==
    \/ call_delay
    \/ call_phase
    \/ call_d_phase_d_param
    \/ call_designmatrix
    \/ call_cached
    \/ Steps

Spec == InitComposite /\ [][Next]_vars

\* SpecPipeline: the delay and phase pipelines, for every number of
\* registered L1, L2 and phase functions
NextPipeline ==
    \/ \E l \in Levels : register_delay(l)
    \/ register_phase
    \/ call_delay
    \/ call_phase
    \/ call_get_barycentric_toas
    \/ delay_body
    \/ phase_start
    \/ phase_loop
    \/ get_barycentric_toas_body

SpecPipeline == Init /\ [][NextPipeline]_vars

\* SpecMatrix: the design matrix and the derivatives, for every table of
\* distinct parameters add_param can build
InitMatrix ==
    /\ InitEval
    /\ params = <<"PSR">>
    /\ frozen = [n \in AllNames |-> TRUE]
    /\ F0value = 0
    /\ attrs = {"PSR"}
    /\ delay_funcs = [L1 |-> <<2>>, L2 |-> <<>>]
    /\ phase_funcs = <<2>>
    /\ pvalue = [n \in AllNames \cup ParfileNames |-> ""]
    /\ ctype = "plain"
    /\ threads = NoThreads

NextMatrix ==
    \/ \E n \in AllNames \ attrs, fr \in BOOLEAN, v \in F0Values :
          add_param(n, fr, v)
    \/ call_d_phase_d_param
    \/ call_d_delay_d_param
    \/ call_designmatrix
    \/ Steps

SpecMatrix == InitMatrix /\ [][NextMatrix]_vars

\* SpecParfile: a newly built model, here with the parameters PSR, A and A2,
\* reads one parfile of at most MaxLines lines (my_model = MyModel();
\* my_model.read_parfile(...))
InitParfile ==
    /\ InitEval
    /\ params = <<"PSR", "A", "A2">>
    /\ attrs = {"PSR", "A", "A2"}
    /\ frozen = [n \in AllNames |-> TRUE]
    /\ F0value = 0
    /\ delay_funcs = [L1 |-> <<>>, L2 |-> <<>>]
    /\ phase_funcs = <<>>
    /\ pvalue = [n \in AllNames \cup ParfileNames |-> ""]
    /\ ctype = "plain"
    /\ threads = NoThreads

NextParfile == \E file \in Files : outcome = "idle" /\ read_parfile(file)

SpecParfile == InitParfile /\ [][NextParfile]_vars


\* SpecParams: a component of each kind (plain, with PLANET_SHAPIRO, with
\* BinaryModelName) gets parameters added and is asked is_in_parfile
InitParams ==
    /\ InitEval
    /\ params = <<"PSR">>
    /\ frozen = [n \in AllNames |-> TRUE]
    /\ F0value = 0
    /\ attrs = {"PSR"}
    /\ delay_funcs = [L1 |-> <<>>, L2 |-> <<>>]
    /\ phase_funcs = <<>>
    /\ pvalue = [n \in AllNames \cup ParfileNames |-> ""]
    /\ ctype \in {"plain", "shapiro", "binary"}
    /\ threads = NoThreads

NextParams ==
    \/ \E n \in {"PSR", "A", "B"} : add_param(n, TRUE, 0)
    \/ \E d \in ParaDicts : is_in_parfile(d)

SpecParams == InitParams /\ [][NextParams]_vars

\* SpecToa: d_phase_d_toa, for every option, on a model with one delay
\* function and one phase function
InitToa ==
    /\ InitEval
    /\ params = <<"PSR">>
    /\ frozen = [n \in AllNames |-> TRUE]
    /\ F0value = 0
    /\ attrs = {"PSR"}
    /\ delay_funcs = [L1 |-> <<2>>, L2 |-> <<>>]
    /\ phase_funcs = <<2>>
    /\ pvalue = [n \in AllNames \cup ParfileNames |-> ""]
    /\ ctype = "plain"
    /\ threads = NoThreads

NextToa ==
    \/ call_d_phase_d_toa
    \/ d_phase_d_toa_sample
    \/ d_phase_d_toa_est
    \/ d_phase_d_toa_next
    \/ phase_start
    \/ delay_body
    \/ phase_loop

SpecToa == InitToa /\ [][NextToa]_vars

\* SpecNoScope: cache_result and use_cache calls on a receiver whose cache
\* attribute is None or missing
InitNoScope ==
    /\ cache \in {NoneCache, AbsentCache}
    /\ stack = <<>>
    /\ top = NoTop
    /\ outcome = "idle"
    /\ result = NoResult
    /\ log = <<>>
    /\ hist = [f \in CachedFuncs |-> [sid |-> 0, val |-> NoVal]]
    /\ nscopes = 0
    /\ everRaised = FALSE
    /\ params = <<"PSR">>
    /\ frozen = [n \in AllNames |-> TRUE]
    /\ F0value = 0
    /\ attrs = {"PSR"}
    /\ delay_funcs = [L1 |-> <<2, 1>>, L2 |-> <<3>>]
    /\ phase_funcs = <<2>>
    /\ pvalue = [n \in AllNames \cup ParfileNames |-> ""]
    /\ ctype = "plain"
    /\ threads = NoThreads

NextNoScope ==
    \/ call_cached
    \/ call_delay
    \/ call_phase
    \/ delay_body
    \/ phase_start
    \/ phase_loop

SpecNoScope == InitNoScope /\ [][NextNoScope]_vars

\* SpecThreads: two threads each make one use_cache call, on one shared
\* TimingModel or each on its own
InitThreads ==
    /\ InitEval
    /\ params = <<"PSR">>
    /\ frozen = [n \in AllNames |-> TRUE]
    /\ F0value = 0
    /\ attrs = {"PSR"}
    /\ delay_funcs = [L1 |-> <<>>, L2 |-> <<>>]
    /\ phase_funcs = <<>>
    /\ pvalue = [n \in AllNames \cup ParfileNames |-> ""]
    /\ ctype = "plain"
    /\ \E sh \in BOOLEAN : threads = ThreadsStart(sh)

NextThreads ==
    \/ \E t \in ThreadIds : thread_test(t)
    \/ \E t \in ThreadIds : thread_enter(t)
    \/ \E t \in ThreadIds : thread_cached(t)
    \/ \E t \in ThreadIds : thread_return(t)

SpecThreads == InitThreads /\ [][NextThreads]_vars

\* ================================================================= claims
Events(kind) == SelectSeq(log, LAMBDA e : e.ev = kind)
Ids(evs) == [i \in 1..Len(evs) |-> evs[i].id]
Returned(fn) == outcome = "returned" /\ top.fn = fn
Owners == {i \in DOMAIN stack : stack[i].own # 0}

\* C1: when a use_cache-wrapped call that created the scope fails, the
\* model's cache is not left as an active Cache once the error has
\* propagated to the caller.
C1_ScopeResetOnError ==
    (outcome = "raised" /\ top.own # 0) => cache.kind # "Cache"

\* C2: as long as every call returns normally, the scope created by the
\* outermost wrapped call is the only one: nested wrapped calls own nothing,
\* the active Cache is the object the outermost call created for as long as
\* that call runs, and cache is None whenever no wrapped call is executing.
C2_ScopeLifecycle ==
    ~everRaised =>
        /\ ~Running => cache.kind = "None"
        /\ Running => /\ cache.kind = "Cache"
                      /\ Owners = {1}
                      /\ cache.id = stack[1].own
                      /\ cache.id = nscopes

C2_Witness ==
    /\ ~everRaised
    /\ Len(stack) >= 4
    /\ Cur.fn = "delay" /\ Cur.own = 0
    /\ stack[Len(stack) - 1].fn = "phase" /\ stack[Len(stack) - 1].own = 0
    /\ cache.kind = "Cache" /\ cache.id = stack[1].own

\* C3: a cache_result-wrapped function called in a scope in which it has
\* already been called does not run again and returns the value stored by
\* the first call, whatever its argument; called with no active scope, or
\* for the first time in a scope, it runs and returns its own result.
C3_CachedOnce ==
    \A j \in DOMAIN log :
        log[j].ev = "helper" =>
            LET e == log[j]
            IN  IF e.sid # 0 /\ e.psid = e.sid
                THEN ~e.ran /\ e.val = e.pval
                ELSE e.ran /\ e.val = HelperVal(e.name, e.arg)

C3_Witness ==
    \E j \in DOMAIN log :
        /\ log[j].ev = "helper"
        /\ log[j].sid # 0 /\ log[j].psid = log[j].sid
        /\ ~log[j].ran
        /\ log[j].val # HelperVal(log[j].name, log[j].arg)

\* C4: inside one scope (a top-level call that created the scope and
\* returned) each registered delay function is executed at most once, however
\* many times delay is requested.
C4_DelayCachedInScope ==
    (outcome = "returned" /\ top.own # 0) =>
        \A i, j \in DOMAIN log :
            (log[i].ev = "df" /\ log[j].ev = "df" /\ log[i].id = log[j].id)
                => i = j

\* C5: an execution of delay calls the L1 functions in registration order,
\* then the L2 functions in registration order.
C5_L1BeforeL2 ==
    Returned("delay") =>
        Ids(Events("df")) = delay_funcs["L1"] \o delay_funcs["L2"]

\* C6: one call of phase evaluates delay once, then calls every phase
\* function once, in registration order, each with the call's toas and the
\* total delay of all L1 and L2 functions; the result is the sum of their
\* contributions, one phase per observation.
TotalDelay(toas) ==
    [i \in 1..Len(toas) |->
        SumSeq([k \in 1..Len(delay_funcs["L1"]) |->
                    DfVal(delay_funcs["L1"][k], toas[i])])
      + SumSeq([k \in 1..Len(delay_funcs["L2"]) |->
                    DfVal(delay_funcs["L2"][k], toas[i])])]

C6_PhaseOnce ==
    Returned("phase") =>
        LET pfs == Events("pf")
            d == TotalDelay(top.toas)
        IN  /\ Len(Events("delay")) = 1
            /\ log[1].ev = "phase" /\ log[2].ev = "delay"
            /\ Ids(pfs) = phase_funcs
            /\ \A k \in DOMAIN pfs : pfs[k].toas = top.toas /\ pfs[k].d = d
            /\ result.kind = "phase"
            /\ Len(result.v) = Len(top.toas)
            /\ \A i \in DOMAIN result.v :
                 LET x == SumSeq([k \in 1..Len(phase_funcs) |->
                                    PfVal(phase_funcs[k], top.toas[i], d[i])])
                 IN  result.v[i] = <<x \div PhaseDen, x % PhaseDen>>

C6_Witness ==
    /\ Returned("phase")
    /\ Len(phase_funcs) = 2
    /\ delay_funcs["L1"] # <<>> /\ delay_funcs["L2"] # <<>>
    /\ Len(top.toas) >= 2

\* C7: designmatrix returns one column per selected parameter (all of them
\* with incfrozen, the free ones without), in parameter-table order, after a
\* leading 'Offset' column of ones when incoffset, each of len(toas) rows.
C7_MatrixShape ==
    Returned("designmatrix") =>
        LET r == result.v
            sel == IF top.opt.incfrozen THEN params
                   ELSE SelectSeq(params, LAMBDA p : ~frozen[p])
            off == IF top.opt.incoffset THEN 1 ELSE 0
        IN  /\ Len(r.M) = Len(sel) + off
            /\ Len(r.params) = Len(r.M)
            /\ \A c \in DOMAIN r.M : Len(r.M[c]) = Len(top.toas)
            /\ top.opt.incoffset =>
                  /\ r.params[1] = "Offset"
                  /\ \A i \in DOMAIN r.M[1] : r.M[1][i] = One
            /\ \A k \in DOMAIN sel : r.params[k + off] = sel[k]
            /\ ~top.opt.incoffset => \A k \in DOMAIN r.params : r.params[k] # "Offset"

C7_Witness ==
    /\ Returned("designmatrix")
    /\ ~top.opt.incfrozen /\ top.opt.incoffset
    /\ Len(top.toas) >= 2
    /\ Len(params) = 3
    /\ Len(result.v.M) = 2

\* C8: a call of designmatrix or d_phase_d_param that involves a parameter
\* with no phase derivative, no delay derivative and no numeric estimate
\* does not return normally.
Derivable == HasDpdp \cup HasDddp

C8_UnavailableDerivative ==
    /\ Returned("designmatrix") =>
          \A k \in DOMAIN result.v.params :
              result.v.params[k] \in Derivable \cup {"Offset"}
    /\ Returned("d_phase_d_param") => top.arg \in Derivable

\* C9: in a designmatrix result, units has one entry per column and
\* units[i] is the unit of the column of params[i].
ColumnUnit(name) ==
    IF name = "Offset" THEN <<"dimensionless">>
    ELSE IF name \in HasDpdp THEN <<"d_phase_d", name, "s">>
    ELSE IF name \in HasDddp THEN <<"d_delay_d", name>>
    ELSE <<"none">>

C9_UnitsParallel ==
    Returned("designmatrix") =>
        LET r == result.v
        IN  /\ Len(r.units) = Len(r.params)
            /\ Len(r.params) = Len(r.M)
            /\ \A i \in DOMAIN r.units : r.units[i] = ColumnUnit(r.params[i])

\* C10: d_phase_d_param returns the analytic derivative, without entering
\* the numeric path, when the model has d_phase_d_<name>; otherwise it
\* returns a numeric estimate with one value per observation.
C10_DerivativeDispatch ==
    Returned("d_phase_d_param") =>
        IF top.arg \in HasDpdp
        THEN /\ result = Val("vec", [i \in 1..Len(top.toas) |->
                                       DpdpVal(top.arg, top.toas[i])])
             /\ Events("num") = <<>>
        ELSE /\ result.kind = "vec"
             /\ Len(result.v) = Len(top.toas)

\* C11: in a designmatrix result, the column of a parameter that has
\* d_phase_d_<param> is that derivative divided by F0, also when it has
\* d_delay_d_<param> as well; the column of a parameter that has only
\* d_delay_d_<param> is that derivative, undivided.
C11_ColumnSource ==
    Returned("designmatrix") =>
        LET r == result.v
        IN  \A k \in DOMAIN r.params : \A i \in DOMAIN top.toas :
                LET p == r.params[k]
                IN  /\ p \in HasDpdp =>
                          r.M[k][i] = <<DpdpVal(p, top.toas[i]), F0value>>
                    /\ p \in HasDddp \ HasDpdp =>
                          r.M[k][i] = <<DddpVal(p, top.toas[i]), 1>>

C11_Witness ==
    /\ Returned("designmatrix")
    /\ Len(top.toas) >= 1
    /\ F0value # 1
    /\ \E k \in DOMAIN result.v.params : result.v.params[k] = "A"
    /\ \E k \in DOMAIN result.v.params : result.v.params[k] = "B"

\* ----------------------------------------------------------- read_parfile
ReadDone == top.fn = "read_parfile" /\ outcome \in {"returned", "raised"}
Offers(i) == {k \in DOMAIN log : log[k].ev = "offer" /\ log[k].line = i}
Warns(i) == {k \in DOMAIN log : log[k].ev = "warn" /\ log[k].line = i}

\* the number of lines up to line i of the file that carry the name of line i
Occurrence(file, i) ==
    Cardinality({j \in 1..i : /\ file[j] \in NameWords
                              /\ UpperBase(file[j]) = UpperBase(file[i])})

\* C12: the first line with a name (compared in upper case) is offered to the
\* parameters with its name token unchanged, and the k-th line with that name,
\* k >= 2, with the token followed by k.
C12_OccurrenceSuffix ==
    ReadDone =>
        \A i \in DOMAIN top.arg :
            top.arg[i] \in NameWords =>
                LET k == Occurrence(top.arg, i)
                    expect == IF k = 1 THEN top.arg[i]
                              ELSE top.arg[i] \o ToString(k)
                IN  /\ Offers(i) # {}
                    /\ \A e \in Offers(i) : log[e].text = expect

C12_Witness ==
    /\ ReadDone
    /\ \E i \in DOMAIN top.arg :
           /\ Occurrence(top.arg, i) = 3
           /\ top.arg[i] = "A" /\ top.arg[1] = "a"
           /\ \E e \in Offers(i) : log[e].text = "A3"

\* C13: a line whose name repeats an earlier line's name is accepted by no
\* parameter that an earlier line of the file has set.
C13_NoOverwrite ==
    ReadDone =>
        \A e \in DOMAIN log : \A d \in DOMAIN log :
            ( /\ log[e].ev = "offer" /\ log[e].ok
              /\ log[d].ev = "offer" /\ log[d].ok
              /\ log[d].line < log[e].line
              /\ Occurrence(top.arg, log[e].line) >= 2 )
            => log[d].par # log[e].par

\* C14: once a parameter has accepted a line, the line is offered to no
\* further parameter.
C14_FirstMatchOnly ==
    ReadDone =>
        \A e \in DOMAIN log : \A d \in DOMAIN log :
            ( /\ log[d].ev = "offer" /\ log[d].ok
              /\ log[e].ev = "offer" /\ log[e].line = log[d].line )
            => e <= d

\* C15: setup() runs once, after every line; blank lines and lines that
\* start with '#' or 'C ' are offered to no parameter and give no warning;
\* an error of setup() reaches the caller.
C15_SetupLastCommentsSkipped ==
    ReadDone =>
        /\ log[Len(log)].ev = "setup"
        /\ \A k \in 1..(Len(log) - 1) : log[k].ev # "setup"
        /\ setup_raises(pvalue) <=> outcome = "raised"
        /\ \A i \in DOMAIN top.arg :
               top.arg[i] \in {"blank", "#", "C", "C-bare"} =>
                   Offers(i) = {} /\ Warns(i) = {}

\* C16: a line that no parameter accepts gives a warning unless its name is
\* on the ignore list or its prefix on the ignore-prefix list, in which case
\* it gives none; reading always goes on to the end of the file.
C16_IgnoreListSilent ==
    ReadDone =>
        \A i \in DOMAIN top.arg :
            top.arg[i] \in NameWords =>
                LET accepted == \E e \in Offers(i) : log[e].ok
                    ignorable == \/ UpperBase(top.arg[i]) \in ignore_params
                                 \/ top.arg[i] = "DMXEP_1"
                IN  /\ Offers(i) # {}
                    /\ Warns(i) # {} <=> ~accepted /\ ~ignorable

\* ------------------------------------------------ add_param, is_in_parfile
AskDone == top.fn = "is_in_parfile" /\ outcome = "returned"

\* C17: the params list holds each name at most once.
C17_UniqueNames ==
    \A i \in DOMAIN params : \A j \in DOMAIN params :
        params[i] = params[j] => i = j

\* C18: PSR is in the parameter table in every state, and is_in_parfile
\* leaves the table as it found it.
C18_PSRKept ==
    /\ \E i \in DOMAIN params : params[i] = "PSR"
    /\ AskDone => params = log[1].before

\* C19: a component with a BinaryModelName is in the parfile exactly when the
\* parfile has a BINARY tag of that value.
C19_BinaryTag ==
    (AskDone /\ ctype = "binary") =>
        (result.v <=> top.arg.binary = BinaryModelName)

\* C20: a component without PLANET_SHAPIRO and without BinaryModelName is in
\* the parfile exactly when a parameter name of its own other than PSR, or an
\* alias of such a parameter, is among the parfile's names.
C20_NameOrAlias ==
    (AskDone /\ ctype = "plain") =>
        LET own == Range(log[1].before) \ {"PSR"}
        IN  result.v <=> \/ own \cap top.arg.keys # {}
                         \/ \E p \in own : AliasesOf(p) \cap top.arg.keys # {}

\* ---------------------------------------------------- get_barycentric_toas
L1Delay(toas) ==
    [i \in 1..Len(toas) |->
        SumSeq([k \in 1..Len(delay_funcs["L1"]) |->
                    DfVal(delay_funcs["L1"][k], toas[i])])]
L2Delay(toas) ==
    [i \in 1..Len(toas) |->
        SumSeq([k \in 1..Len(delay_funcs["L2"]) |->
                    DfVal(delay_funcs["L2"][k], toas[i])])]

\* C24: get_barycentric_toas calls every L1 delay function once, in
\* registration order, and no L2 function; its result is the observed time
\* minus the sum of the L1 delays, which is the observed time minus
\* delay(toas) exactly when the L2 functions contribute nothing.
C24_BarycentricL1Only ==
    Returned("get_barycentric_toas") =>
        LET dfs == Events("df")
            t == top.toas
        IN  /\ Ids(dfs) = delay_funcs["L1"]
            /\ \A k \in DOMAIN dfs : dfs[k].toas = t
            /\ result.v = [i \in 1..Len(t) |-> SecPerDay * t[i] - L1Delay(t)[i]]
            /\ (result.v = [i \in 1..Len(t) |->
                              SecPerDay * t[i] - TotalDelay(t)[i]])
               <=> (\A i \in 1..Len(t) : L2Delay(t)[i] = 0)

C24_Witness ==
    /\ Returned("get_barycentric_toas")
    /\ Len(delay_funcs["L1"]) = 2 /\ delay_funcs["L2"] # <<>>
    /\ Len(top.toas) >= 2

\* --------------------------------------------------------- d_delay_d_param
\* C28: d_delay_d_param of a parameter with registered delay-derivative
\* functions ends without error, and returns one entry per observation, the
\* sum of the functions' values.
C28_DelayDerivSum ==
    (top.fn = "d_delay_d_param" /\ outcome # "idle") =>
        /\ outcome = "returned"
        /\ result.v = [i \in 1..Len(top.toas) |-> DddpVal(top.arg, top.toas[i])]

\* ----------------------------------------------------------- d_phase_d_toa
Windows == Events("window")

\* C21: one d_phase_d_toa request over N observations calls phase once, on
\* the resampled instants of all N windows together.
C21_PhaseBatched ==
    (Returned("d_phase_d_toa") /\ Len(top.toas) >= 1) =>
        LET ph == Events("phase")
        IN  /\ Len(ph) = 1
            /\ Len(ph[1].toas) =
                   Len(top.toas) * odd_samples(top.opt.num_sample)

\* C25: with method None or 'FDM' only the finite-difference estimator runs
\* and gives the result; with method 'chebyshev' only the Chebyshev
\* estimator runs (no finite-difference resampling) and gives the result.
C25_MethodSelects ==
    Returned("d_phase_d_toa") =>
        LET blocks == {Windows[k].block : k \in DOMAIN Windows}
            want == IF top.opt.method.name = "chebyshev"
                    THEN "chebyshev" ELSE "fdm"
        IN  /\ blocks \subseteq {want}
            /\ \A i \in DOMAIN result.v : result.v[i].kind = want

\* C26: whatever num_sample and method are asked for, every window has an
\* odd number of sample instants, and the value returned for an observation
\* is the estimate at the middle sample, whose instant is the observation's
\* own time.
C26_OddCentred ==
    /\ \A k \in DOMAIN Windows : Len(Windows[k].sample) % 2 = 1
    /\ Returned("d_phase_d_toa") =>
           \A i \in DOMAIN result.v :
               LET e == result.v[i]
               IN  /\ e.kind # "zero"
                   /\ 2 * e.at = Len(e.x) + 1
                   /\ \A k \in DOMAIN Windows :
                          Windows[k].obs = i =>
                              /\ Len(Windows[k].sample) = Len(e.x)
                              /\ Windows[k].sample[e.at] = top.toas[i]

C26_Witness ==
    /\ Returned("d_phase_d_toa")
    /\ top.opt.num_sample = 4
    /\ top.opt.method.name = "chebyshev"
    /\ Len(top.toas) >= 1
    /\ result.v[1].kind = "chebyshev"
    /\ Len(result.v[1].x) = 5

\* C27: time_intval is in seconds: the window of an observation at time t
\* (days) runs from t - time_intval/2 seconds to t + time_intval/2 seconds,
\* and the time axis of the differentiation from 0 to time_intval seconds.
C27_WindowSeconds ==
    (top.fn = "d_phase_d_toa") =>
        \A k \in DOMAIN Windows :
            LET w == Windows[k].sample
                t == top.toas[Windows[k].obs]
                x == reduce_samepl(w)
            IN  /\ 2 * SecPerDay * (t - w[1]) = top.opt.time_intval
                /\ 2 * SecPerDay * (w[Len(w)] - t) = top.opt.time_intval
                /\ x[1] = 0 /\ x[Len(x)] = top.opt.time_intval

\* ------------------------------------------------------- calls with no scope
Helpers == Events("helper")

\* C23: with the cache None or the cache attribute missing, a cache_result
\* call runs the function body every time and stores nothing; a use_cache
\* call on a receiver without the attribute creates none: the attribute
\* stays missing.
C23_NoScopeNoStore ==
    /\ [](/\ cache.kind # "Cache" =>
                \A f \in CachedFuncs : cache.store[f] = NoVal
          /\ \A k \in DOMAIN Helpers : Helpers[k].sid = 0 => Helpers[k].ran)
    /\ [][cache.kind \in {"Absent"} => cache' = cache]_vars
    /\ [][(cache.kind = "None" /\ ~Running /\ top'.fn \in CachedFuncs)
            => cache' = cache]_vars

C23_Witness ==
    /\ cache.kind = "Absent"
    /\ Returned("phase")
    /\ Len(Helpers) = 3
    /\ \A k \in DOMAIN Helpers : Helpers[k].ran
    /\ Helpers[2].name = Helpers[3].name

\* ------------------------------------------------------------------ threads
\* C22: when each thread calls on its own TimingModel, no call sees or
\* tears down a scope another thread created: a thread finds the cache None
\* on entry, every cached call it makes uses the scope it installed, and
\* that scope stays installed until it returns.  On a shared TimingModel
\* the creator can reset the cache while the other thread is inside.
C22_OwnInstanceSafe ==
    ~threads.shared =>
        \A t \in DOMAIN threads.t :
            LET th == threads.t[t]
            IN  /\ th.saw.kind = "None"
                /\ th.used \subseteq {th.own}
                /\ th.pc = "body" => threads.cache[t].id = th.own

C22_Witness ==
    /\ threads.shared
    /\ \E t \in ThreadIds, u \in ThreadIds :
          /\ t # u
          /\ threads.t[u].pc = "done" /\ threads.t[u].own # 0
          /\ threads.t[t].pc = "body" /\ threads.t[t].k = CallsPerThread
          /\ threads.t[t].saw.id = threads.t[u].own
          /\ threads.t[t].used = {threads.t[u].own, 0}
          /\ threads.cache[1].kind = "None"

====
